---- MODULE Spec2Model ----
(***************************************************************************)
(* Mython: the lexer (src/lexer.cpp, src/lexer.h) and the AST evaluator    *)
(* (src/statement.cpp) as state machines.                                  *)
(*                                                                         *)
(* A character is a one-character string, a line a sequence of characters. *)
(* Token payloads and the evaluator's output are strings.                  *)
(***************************************************************************)
EXTENDS Integers, Sequences, FiniteSets, TLC

VARIABLES
    pc,          \* lexer: "reading" (inside Lexer::Lexer), "ready", "error"
    token_,      \* Lexer::token_, the deque of unread tokens
    indents,     \* Lexer::indents
    nlines,      \* number of lines getline has delivered so far
    line,        \* the line read by the last getline
    emitted,     \* the tokens pushed while handling that line
    prevIndents, \* Lexer::indents before that line was handled
    stream,      \* token_ as it was when the constructor returned
    k,           \* number of NextToken calls since construction
    returned,    \* the token returned by the last NextToken call
    output,      \* evaluator: the text written to the Context's output stream
    fields,      \* ClassInstance::Fields() of every instance
    runs,        \* number of statements the host has executed
    stmt,        \* the statement executed last
    closure0,    \* the closure it was executed against
    closure1,    \* that closure after the execution
    output0,     \* output before the execution
    fields0,     \* fields before the execution
    result,      \* how the execution ended: a value, a return signal, an error
    log          \* the evaluation steps of the execution, in order

lexvars == <<pc, token_, indents, nlines, line, emitted, prevIndents, stream, k, returned>>

evalvars == <<output, fields, runs, stmt, closure0, closure1, output0, fields0, result, log>>

vars == <<lexvars, evalvars>>

(***************************************************************************)
(* Bounds of the model.                                                    *)
(***************************************************************************)
MaxLines == 2
MaxSpaces == 4
MaxRuns == 2
MaxDepth == 4
MaxStatements == 3

(***************************************************************************)
(* Characters.                                                             *)
(***************************************************************************)
EOFCH == "EOF"

Digits == {"0", "1", "2", "3", "4", "5", "6", "7", "8", "9"}

Letters ==
    {"a", "b", "c", "d", "e", "f", "g", "h", "i", "j", "k", "l", "m",
     "n", "o", "p", "q", "r", "s", "t", "u", "v", "w", "x", "y", "z",
     "A", "B", "C", "D", "E", "F", "G", "H", "I", "J", "K", "L", "M",
     "N", "O", "P", "Q", "R", "S", "T", "U", "V", "W", "X", "Y", "Z"}

IsSpace(c) == c \in {" ", "\t", "\n", "\r", "\f"}

IsDigit(c) == c \in Digits

IsAlnum(c) == c \in Digits \cup Letters

DigitVal(c) ==
    CASE c = "0" -> 0 [] c = "1" -> 1 [] c = "2" -> 2 [] c = "3" -> 3
      [] c = "4" -> 4 [] c = "5" -> 5 [] c = "6" -> 6 [] c = "7" -> 7
      [] c = "8" -> 8 [] c = "9" -> 9

IntMax == 2147483647

(***************************************************************************)
(* Tokens.                                                                 *)
(***************************************************************************)
Tok(t) == [type |-> t]

CharTok(c) == [type |-> "Char", value |-> c]

IdTok(s) == [type |-> "Id", value |-> s]

StringTok(s) == [type |-> "String", value |-> s]

NumberTok(n) == [type |-> "Number", num |-> n]

key_words_ ==
    {"class", "return", "if", "else", "def", "print", "and", "or", "not",
     "==", "!=", "<=", ">=", "None", "True", "False"}

KeyWordTok(s) ==
    CASE s = "class" -> Tok("Class") [] s = "return" -> Tok("Return")
      [] s = "if" -> Tok("If") [] s = "else" -> Tok("Else")
      [] s = "def" -> Tok("Def") [] s = "print" -> Tok("Print")
      [] s = "and" -> Tok("And") [] s = "or" -> Tok("Or")
      [] s = "not" -> Tok("Not") [] s = "==" -> Tok("Eq")
      [] s = "!=" -> Tok("NotEq") [] s = "<=" -> Tok("LessOrEq")
      [] s = ">=" -> Tok("GreaterOrEq") [] s = "None" -> Tok("None")
      [] s = "True" -> Tok("True") [] s = "False" -> Tok("False")

delimiter_ ==
    {":", "(", ")", ".", ",", "@", "%", "$", "^", "&", ";", "{", "}", "[", "]", "?", "#"}

logic_operations_ == {"=", "<", ">", "!"}

ariphmetic_operations_ == {"+", "-", "*", "/"}

IsPunct(c) == c \in delimiter_ \cup logic_operations_ \cup ariphmetic_operations_

IsString(c) == c \in {"\"", "'"}

IsIdentifiersOrNumber(c) == IsAlnum(c) \/ c = "_"

(***************************************************************************)
(* The istringstream over the body of a line: the unread characters and    *)
(* the eofbit and failbit.                                                 *)
(***************************************************************************)
MkStream(s) == [buf |-> s, eof |-> FALSE, fail |-> FALSE]

Good(ss) == ~ss.eof /\ ~ss.fail

Peek(ss) == IF Good(ss) /\ ss.buf # <<>> THEN Head(ss.buf) ELSE EOFCH

AfterPeek(ss) ==
    IF ~Good(ss) THEN [ss EXCEPT !.fail = TRUE]
    ELSE IF ss.buf = <<>> THEN [ss EXCEPT !.eof = TRUE]
    ELSE ss

Get(ss) == IF Good(ss) /\ ss.buf # <<>> THEN Head(ss.buf) ELSE EOFCH

AfterGet(ss) ==
    IF ~Good(ss) THEN [ss EXCEPT !.fail = TRUE]
    ELSE IF ss.buf = <<>> THEN [ss EXCEPT !.eof = TRUE, !.fail = TRUE]
    ELSE [ss EXCEPT !.buf = Tail(ss.buf)]

(***************************************************************************)
(* Lexer::ReadNumber: the maximal run of digits, converted by stoi, which  *)
(* fails when the value does not fit an int.                               *)
(***************************************************************************)
RECURSIVE ReadDigits(_, _)
ReadDigits(ss, parsed) ==
    IF IsDigit(Peek(ss))
    THEN ReadDigits(AfterGet(AfterPeek(ss)), Append(parsed, Get(AfterPeek(ss))))
    ELSE [ss |-> AfterPeek(ss), parsed |-> parsed]

RECURSIVE Stoi(_, _)
Stoi(digits, acc) ==
    IF digits = <<>> THEN [err |-> FALSE, num |-> acc]
    ELSE LET d == DigitVal(Head(digits))
         IN  IF acc > (IntMax - d) \div 10
             THEN [err |-> TRUE, num |-> 0]
             ELSE Stoi(Tail(digits), acc * 10 + d)

ReadNumber(c, ss) ==
    LET r == ReadDigits(ss, <<c>>)
        n == Stoi(r.parsed, 0)
    IN  [err |-> n.err, ss |-> r.ss, tok |-> NumberTok(n.num)]

(***************************************************************************)
(* Lexer::ReadIdentifiersOrNumber.                                         *)
(***************************************************************************)
RECURSIVE ReadWord(_, _)
ReadWord(ss, parsed) ==
    IF IsAlnum(Peek(ss)) \/ Peek(ss) = "_"
    THEN ReadWord(AfterGet(AfterPeek(ss)), parsed \o Get(AfterPeek(ss)))
    ELSE [ss |-> AfterPeek(ss), parsed |-> parsed]

ReadIdentifiersOrNumber(c, ss) ==
    IF IsDigit(c) THEN ReadNumber(c, ss)
    ELSE LET r == ReadWord(ss, c)
         IN  [err |-> FALSE, ss |-> r.ss,
              tok |-> IF r.parsed \in key_words_ THEN KeyWordTok(r.parsed)
                      ELSE IdTok(r.parsed)]

(***************************************************************************)
(* Lexer::ReadChar and Lexer::ReadStrings.                                 *)
(***************************************************************************)
ReadChar(ss) ==
    IF ss.fail THEN [err |-> TRUE, ss |-> ss, ch |-> EOFCH]
    ELSE [err |-> FALSE, ss |-> AfterGet(ss), ch |-> Get(ss)]

Escape(c) ==
    CASE c = "\"" -> "\""
      [] c = "n" -> "\n"
      [] c = "r" -> "\r"
      [] c = "'" -> "'"
      [] c = "t" -> "\t"
      [] c = "\\" -> "\\"

IsEscape(c) == c \in {"\"", "n", "r", "'", "t", "\\"}

RECURSIVE ReadStringsLoop(_, _, _)
ReadStringsLoop(c, ss, str) ==
    IF Peek(ss) = c
    THEN [err |-> FALSE, ss |-> AfterGet(AfterPeek(ss)), tok |-> StringTok(str)]
    ELSE LET r1 == ReadChar(AfterPeek(ss))
         IN  IF r1.err THEN [err |-> TRUE, ss |-> r1.ss, tok |-> StringTok(str)]
             ELSE IF r1.ch = "\\"
             THEN LET r2 == ReadChar(r1.ss)
                  IN  IF r2.err \/ ~IsEscape(r2.ch)
                      THEN [err |-> TRUE, ss |-> r2.ss, tok |-> StringTok(str)]
                      ELSE ReadStringsLoop(c, r2.ss, str \o Escape(r2.ch))
             ELSE ReadStringsLoop(c, r1.ss, str \o r1.ch)

ReadStrings_CloseAtEnd(c, ss) == [ReadStringsLoop(c, ss, "") EXCEPT !.err = FALSE]

ReadStrings(c, ss) == ReadStringsLoop(c, ss, "")

(***************************************************************************)
(* The scan of a line's body in Lexer::ReadToken (the inner while loop).   *)
(***************************************************************************)
PunctStep(c, ss) ==
    LET t1 == IF c \in delimiter_ \cup ariphmetic_operations_
              THEN <<CharTok(c)>> ELSE <<>>
    IN  IF c \in logic_operations_
        THEN IF Peek(ss) = "="
             THEN LET parsed == c \o Get(AfterPeek(ss))
                  IN  [ss |-> AfterGet(AfterPeek(ss)),
                       toks |-> t1 \o (IF parsed \in key_words_
                                       THEN <<KeyWordTok(parsed)>> ELSE <<>>)]
             ELSE [ss |-> AfterPeek(ss), toks |-> t1 \o <<CharTok(c)>>]
        ELSE [ss |-> ss, toks |-> t1]

RECURSIVE ScanBody(_, _)
ScanBody(ss, toks) ==
    LET c == Get(ss)
        s0 == AfterGet(ss)
    IN  IF s0.fail THEN [err |-> FALSE, toks |-> toks]
        ELSE IF c = "#" THEN [err |-> FALSE, toks |-> toks]
        ELSE IF IsSpace(c) THEN ScanBody(s0, toks)
        ELSE LET p == IF IsPunct(c) THEN PunctStep(c, s0)
                      ELSE [ss |-> s0, toks |-> <<>>]
                 w == IF IsIdentifiersOrNumber(c)
                      THEN ReadIdentifiersOrNumber(c, p.ss)
                      ELSE [err |-> FALSE, ss |-> p.ss, tok |-> Tok("none")]
                 s == IF ~w.err /\ IsString(c)
                      THEN ReadStrings(c, w.ss)
                      ELSE [err |-> FALSE, ss |-> w.ss, tok |-> Tok("none")]
             IN  IF w.err \/ s.err THEN [err |-> TRUE, toks |-> toks]
                 ELSE ScanBody(s.ss,
                               toks \o p.toks
                                    \o (IF IsIdentifiersOrNumber(c) THEN <<w.tok>> ELSE <<>>)
                                    \o (IF IsString(c) THEN <<s.tok>> ELSE <<>>))

(***************************************************************************)
(* Lexer::IsEmptyLine, find_first_not_of(' ') and Lexer::ReadIndents.      *)
(***************************************************************************)
RECURSIVE FindFirstNotSpace(_, _)
FindFirstNotSpace(s, i) ==
    IF i > Len(s) THEN -1
    ELSE IF s[i] # " " THEN i - 1
    ELSE FindFirstNotSpace(s, i + 1)

IsEmptyLine(s) ==
    LET pos == FindFirstNotSpace(s, 1)
    IN  s = <<>> \/ pos = -1 \/ s[pos + 1] = "#"

ReadIndents_OneDedent(count_spaces, ind) ==
    IF count_spaces > ind
    THEN [indents |-> count_spaces,
          toks |-> [i \in 1..(count_spaces - ind) |-> Tok("Indent")]]
    ELSE IF count_spaces < ind
    THEN [indents |-> count_spaces, toks |-> <<Tok("Dedent")>>]
    ELSE [indents |-> ind, toks |-> <<>>]

ReadIndents(count_spaces, ind) ==
    IF count_spaces > ind
    THEN [indents |-> count_spaces,
          toks |-> [i \in 1..(count_spaces - ind) |-> Tok("Indent")]]
    ELSE IF count_spaces < ind
    THEN [indents |-> count_spaces,
          toks |-> [i \in 1..(ind - count_spaces) |-> Tok("Dedent")]]
    ELSE [indents |-> ind, toks |-> <<>>]

(***************************************************************************)
(* One iteration of the outer while loop of Lexer::ReadToken on a line.    *)
(***************************************************************************)
LineStep_NewlineIfTokens(s, ind) ==
    IF IsEmptyLine(s) THEN [err |-> FALSE, indents |-> ind, toks |-> <<>>]
    ELSE LET count_space == FindFirstNotSpace(s, 1)
         IN  IF count_space % 2 # 0
             THEN [err |-> TRUE, indents |-> ind, toks |-> <<>>]
             ELSE LET ri == ReadIndents(count_space \div 2, ind)
                      body == ScanBody(MkStream(SubSeq(s, count_space + 1, Len(s))), <<>>)
                  IN  [err |-> body.err, indents |-> ri.indents,
                       toks |-> ri.toks \o body.toks
                                  \o (IF Len(body.toks) > 1 THEN <<Tok("Newline")>> ELSE <<>>)]

LineStep_NoParityCheck(s, ind) ==
    IF IsEmptyLine(s) THEN [err |-> FALSE, indents |-> ind, toks |-> <<>>]
    ELSE LET count_space == FindFirstNotSpace(s, 1)
             ri == ReadIndents(count_space \div 2, ind)
             body == ScanBody(MkStream(SubSeq(s, count_space + 1, Len(s))), <<>>)
         IN  [err |-> body.err, indents |-> ri.indents,
              toks |-> ri.toks \o body.toks \o <<Tok("Newline")>>]

LineStep(s, ind) ==
    IF IsEmptyLine(s) THEN [err |-> FALSE, indents |-> ind, toks |-> <<>>]
    ELSE LET count_space == FindFirstNotSpace(s, 1)
         IN  IF count_space % 2 # 0
             THEN [err |-> TRUE, indents |-> ind, toks |-> <<>>]
             ELSE LET ri == ReadIndents(count_space \div 2, ind)
                      body == ScanBody(MkStream(SubSeq(s, count_space + 1, Len(s))), <<>>)
                  IN  [err |-> body.err, indents |-> ri.indents,
                       toks |-> ri.toks \o body.toks \o <<Tok("Newline")>>]

(***************************************************************************)
(* The inputs: a line is 0..MaxSpaces spaces followed by one of Bodies.    *)
(***************************************************************************)
Bodies ==
    { <<>>,
      <<"x">>,
      <<"#", "c">>,
      <<"\t">>,
      <<"\r">>,
      <<"\t", "#", "c">>,
      <<"x", " ", "#", "c">>,
      <<"i", "f", " ", "x", "<", "=", "1", "2", ":", "\r">>,
      <<"x", "=", "'", "a", "\\", "t", "'">>,
      <<"\"", "a">>,
      <<"'", "\\">>,
      <<"'", "\\", "q", "'">>,
      <<"x", "=", "'", "a", "\\", "'">>,
      <<"2", "1", "4", "7", "4", "8", "3", "6", "4", "8">> }

Spaces(n) == [i \in 1..n |-> " "]

Lines == { Spaces(n) \o b : n \in 0..MaxSpaces, b \in Bodies }

(***************************************************************************)
(* The lexer as a state machine.                                           *)
(***************************************************************************)
LexInit ==
    /\ pc = "reading"
    /\ token_ = <<>>
    /\ indents = 0
    /\ nlines = 0
    /\ line = <<>>
    /\ emitted = <<>>
    /\ prevIndents = 0
    /\ stream = <<>>
    /\ k = 0
    /\ returned = Tok("none")

\* getline delivers a line and the loop body of ReadToken handles it
ReadLine ==
    /\ pc = "reading"
    /\ nlines < MaxLines
    /\ \E s \in Lines :
         LET r == LineStep(s, indents)
         IN  /\ line' = s
             /\ nlines' = nlines + 1
             /\ prevIndents' = indents
             /\ IF r.err
                THEN /\ pc' = "error"
                     /\ token_' = <<>>
                     /\ indents' = 0
                     /\ emitted' = <<>>
                ELSE /\ pc' = "reading"
                     /\ token_' = token_ \o r.toks
                     /\ indents' = r.indents
                     /\ emitted' = r.toks
    /\ UNCHANGED <<stream, k, returned>>
    /\ UNCHANGED evalvars

\* getline reports the end of the input: the tail of ReadToken
EndOfInput ==
    /\ pc = "reading"
    /\ LET ri == IF indents > 0 THEN ReadIndents(0, indents)
                 ELSE [indents |-> indents, toks |-> <<>>]
           all == token_ \o ri.toks \o <<Tok("Eof")>>
       IN  /\ token_' = all
           /\ stream' = all
           /\ indents' = ri.indents
           /\ emitted' = ri.toks \o <<Tok("Eof")>>
    /\ pc' = "ready"
    /\ line' = <<>>
    /\ prevIndents' = indents
    /\ UNCHANGED <<nlines, k, returned>>
    /\ UNCHANGED evalvars

CurrentToken == Head(token_)

PopFront_OffByOne(toks) == IF Len(toks) > 2 THEN Tail(toks) ELSE toks

\* the guarded pop_front of Lexer::NextToken
PopFront(toks) == IF Len(toks) > 1 THEN Tail(toks) ELSE toks

NextToken ==
    /\ pc = "ready"
    /\ k <= Len(stream)
    /\ token_' = PopFront(token_)
    /\ returned' = Head(token_')
    /\ k' = k + 1
    /\ UNCHANGED <<pc, indents, nlines, line, emitted, prevIndents, stream>>
    /\ UNCHANGED evalvars

LexNext == ReadLine \/ EndOfInput \/ NextToken

(***************************************************************************)
(* The evaluator: values.  An empty ObjectHolder is None; a ClassInstance  *)
(* value is a handle (id) into the fields map of the instances.            *)
(***************************************************************************)
IntMin == -2147483647 - 1

None == [t |-> "None"]

Number(n) == [t |-> "Number", n |-> n]

String(s) == [t |-> "String", s |-> s]

Bool(b) == [t |-> "Bool", b |-> b]

Instance(id) == [t |-> "ClassInstance", id |-> id]

\* runtime::IsTrue
IsTrue(v) ==
    CASE v.t = "None" -> FALSE
      [] v.t = "Bool" -> v.b
      [] v.t = "Number" -> v.n # 0
      [] v.t = "String" -> v.s # ""
      [] OTHER -> TRUE

DigitChar(d) == <<"0", "1", "2", "3", "4", "5", "6", "7", "8", "9">>[d + 1]

RECURSIVE NatStr(_)
NatStr(n) == IF n < 10 THEN DigitChar(n) ELSE NatStr(n \div 10) \o DigitChar(n % 10)

IntStr(n) ==
    IF n >= 0 THEN NatStr(n)
    ELSE IF n = IntMin THEN "-2147483648"
    ELSE "-" \o NatStr(0 - n)

\* Object::Print: the display form of a non-empty value
Render(v) ==
    CASE v.t = "Number" -> IntStr(v.n)
      [] v.t = "String" -> v.s
      [] v.t = "Bool" -> (IF v.b THEN "True" ELSE "False")
      [] v.t = "ClassInstance" -> "<instance " \o IntStr(v.id) \o ">"

(***************************************************************************)
(* AST nodes.                                                              *)
(***************************************************************************)
NullStmt == [node |-> "null"]

Const(v) == [node |-> "Const", v |-> v]

VariableValue(ids) == [node |-> "VariableValue", dotted_ids |-> ids]

Assignment(var, rv) == [node |-> "Assignment", var |-> var, rv |-> rv]

FieldAssignment(object, field_name, rv) ==
    [node |-> "FieldAssignment", object |-> object, field_name |-> field_name, rv |-> rv]

PrintNode(args) == [node |-> "Print", args |-> args]

MethodCall(object, method, args) ==
    [node |-> "MethodCall", object |-> object, method |-> method, args |-> args]

Stringify(argument) == [node |-> "Stringify", argument |-> argument]

BinaryOperation(op, lhs, rhs) == [node |-> op, lhs |-> lhs, rhs |-> rhs]

Div(lhs, rhs) == BinaryOperation("Div", lhs, rhs)

Not(argument) == [node |-> "Not", argument |-> argument]

Compound(statements) == [node |-> "Compound", statements |-> statements]

Return(statement) == [node |-> "Return", statement |-> statement]

IfElse(condition, if_body, else_body) ==
    [node |-> "IfElse", condition |-> condition, if_body |-> if_body, else_body |-> else_body]

\* MethodBody's constructor adds the body to its Compound body_
MethodBody(body) == [node |-> "MethodBody", body_ |-> Compound(<<body>>)]

(***************************************************************************)
(* The classes of the program under execution (runtime::Class): one class, *)
(* Box, with the methods say(x), which prints x and returns it, nop(),     *)
(* which returns nothing, and __div__(o), which returns o.                 *)
(***************************************************************************)
Methods ==
    ("say" :> [formal_params |-> <<"x">>,
               body |-> MethodBody(Compound(<<PrintNode(<<VariableValue(<<"x">>)>>),
                                              Return(VariableValue(<<"x">>))>>))])
    @@ ("nop" :> [formal_params |-> <<>>,
                  body |-> MethodBody(Compound(<<>>))])
    @@ ("__div__" :> [formal_params |-> <<"o">>,
                      body |-> MethodBody(Return(VariableValue(<<"o">>)))])

\* ClassInstance::HasMethod
HasMethod(method, argument_count) ==
    /\ method \in DOMAIN Methods
    /\ Len(Methods[method].formal_params) = argument_count

(***************************************************************************)
(* Outcomes of Execute: a value, a thrown ast::Exception carrying the      *)
(* value of a Return ("return"), a thrown std::exception ("error"), or     *)
(* undefined behaviour ("ub").  ctx is the Context with the instances.     *)
(***************************************************************************)
Outcome(kind, val, msg, closure, ctx) ==
    [kind |-> kind, val |-> val, msg |-> msg, closure |-> closure, ctx |-> ctx]

Value(v, closure, ctx) == Outcome("value", v, "", closure, ctx)

Thrown(v, closure, ctx) == Outcome("return", v, "", closure, ctx)

Error(msg, closure, ctx) == Outcome("error", None, msg, closure, ctx)

Undefined(closure, ctx) == Outcome("ub", None, "", closure, ctx)

Event(op, arg) == [op |-> op, arg |-> arg]

Logged(ctx, op, arg) == [ctx EXCEPT !.log = Append(@, Event(op, arg))]

Written(ctx, text) == [ctx EXCEPT !.output = @ \o text]

Bind(closure, var, v) == (var :> v) @@ closure

(***************************************************************************)
(* Integer arithmetic on int: overflow is undefined behaviour.             *)
(***************************************************************************)
DivOverflows(a, b) == a = IntMin /\ b = -1

TruncDivPos(a, p) ==
    IF a < 0 /\ a % p # 0 THEN (a \div p) + 1 ELSE a \div p

\* the quotient of int / int, for b # 0 and without overflow
DivValue(a, b) ==
    IF b > 0 THEN TruncDivPos(a, b)
    ELSE IF b = IntMin THEN (IF a = IntMin THEN 1 ELSE 0)
    ELSE 0 - TruncDivPos(a, 0 - b)

(***************************************************************************)
(* Statement::Execute for every node kind.                                 *)
(***************************************************************************)
RECURSIVE Execute(_, _, _)
RECURSIVE Accumulate(_, _, _, _)
RECURSIVE ExecutePrintArgs(_, _, _, _)
RECURSIVE ExecuteArgs(_, _, _, _, _)
RECURSIVE ExecuteStatements(_, _, _, _)
RECURSIVE Call(_, _, _, _, _)

\* the accumulate over the names after the first in VariableValue::Execute
Accumulate(names, parent, closure, ctx) ==
    IF names = <<>> THEN Value(parent, closure, ctx)
    ELSE IF parent.t # "ClassInstance" THEN Undefined(closure, ctx)
    ELSE IF Head(names) \notin DOMAIN ctx.fields[parent.id]
    THEN Error("std::out_of_range", closure, ctx)
    ELSE Accumulate(Tail(names), ctx.fields[parent.id][Head(names)], closure, ctx)

ExecuteVariableValue(node, closure, ctx) ==
    LET var_name == Head(node.dotted_ids)
    IN  IF var_name \notin DOMAIN closure
        THEN Error("unknown variable " \o var_name, closure, ctx)
        ELSE Accumulate(Tail(node.dotted_ids), closure[var_name], closure,
                        Logged(ctx, "var", var_name))

ExecuteAssignment(node, closure, ctx) ==
    LET r == Execute(node.rv, closure, ctx)
    IN  IF r.kind # "value" THEN r
        ELSE Value(r.val, Bind(r.closure, node.var, r.val), Logged(r.ctx, "assign", node.var))

\* the loop of Print::Execute from the i-th argument on; the output stream
\* is in a good state
ExecutePrintArgs(args, i, closure, ctx) ==
    IF i > Len(args) THEN Value(None, closure, Written(ctx, "\n"))
    ELSE LET c1 == IF i = 1 THEN ctx ELSE Written(ctx, " ")
             r == Execute(args[i], closure, c1)
         IN  IF r.kind # "value" THEN r
             ELSE ExecutePrintArgs(args, i + 1, r.closure,
                      Written(r.ctx, IF r.val.t = "None" THEN "None" ELSE Render(r.val)))

ExecutePrint(node, closure, ctx) == ExecutePrintArgs(node.args, 1, closure, ctx)

\* the evaluation of an argument list into actual_args
ExecuteArgs(args, i, closure, ctx, actual_args) ==
    IF i > Len(args)
    THEN [out |-> Value(None, closure, ctx), actual_args |-> actual_args]
    ELSE LET r == Execute(args[i], closure, ctx)
         IN  IF r.kind # "value" THEN [out |-> r, actual_args |-> actual_args]
             ELSE ExecuteArgs(args, i + 1, r.closure, r.ctx, Append(actual_args, r.val))

\* ClassInstance::Call: the method body runs in a closure of its own, which
\* binds self and the formal parameters
Call(self, method, actual_args, closure, ctx) ==
    LET m == Methods[method]
        frame == [n \in {"self"} \cup {m.formal_params[j] : j \in 1..Len(m.formal_params)} |->
                    IF n = "self" THEN self
                    ELSE actual_args[CHOOSE j \in 1..Len(m.formal_params) : m.formal_params[j] = n]]
        r == Execute(m.body, frame, Logged(ctx, "call", method))
    IN  Outcome(r.kind, r.val, r.msg, closure, r.ctx)

ExecuteMethodCall(node, closure, ctx) ==
    LET a == ExecuteArgs(node.args, 1, closure, ctx, <<>>)
    IN  IF a.out.kind # "value" THEN a.out
        ELSE LET o == Execute(node.object, a.out.closure, a.out.ctx)
             IN  IF o.kind # "value" THEN o
                 ELSE IF o.val.t = "ClassInstance" /\ HasMethod(node.method, Len(a.actual_args))
                 THEN Call(o.val, node.method, a.actual_args, o.closure, o.ctx)
                 ELSE Error("Bad Method call: " \o node.method, o.closure, o.ctx)

ExecuteStringify_EmptyNone(node, closure, ctx) ==
    LET r == Execute(node.argument, closure, ctx)
    IN  IF r.kind # "value" THEN r
        ELSE Value(IF r.val.t = "None" THEN String("") ELSE String(Render(r.val)),
                   r.closure, r.ctx)

ExecuteStringify(node, closure, ctx) ==
    LET r == Execute(node.argument, closure, ctx)
    IN  IF r.kind # "value" THEN r
        ELSE Value(IF r.val.t = "None" THEN String("None") ELSE String(Render(r.val)),
                   r.closure, r.ctx)

ExecuteDiv(node, closure, ctx) ==
    LET l == Execute(node.lhs, closure, ctx)
    IN  IF l.kind # "value" THEN l
        ELSE LET r == Execute(node.rhs, l.closure, l.ctx)
             IN  IF r.kind # "value" THEN r
                 ELSE IF l.val.t = "Number" /\ r.val.t = "Number"
                 THEN IF r.val.n = 0 THEN Error("Zero Division!", r.closure, r.ctx)
                      ELSE IF DivOverflows(l.val.n, r.val.n) THEN Undefined(r.closure, r.ctx)
                      ELSE Value(Number(DivValue(l.val.n, r.val.n)), r.closure, r.ctx)
                 ELSE IF l.val.t = "ClassInstance" /\ HasMethod("__div__", 1)
                 THEN Call(l.val, "__div__", <<r.val>>, r.closure, r.ctx)
                 ELSE Error("Bad Division!", r.closure, r.ctx)

ExecuteStatements_AnyResult(statements, i, closure, ctx) ==
    IF i > Len(statements) THEN Value(None, closure, ctx)
    ELSE LET statement == statements[i]
             r == Execute(statement, closure, ctx)
         IN  IF statement.node = "Return" THEN r
             ELSE IF r.kind # "value" THEN r
             ELSE IF r.val.t # "None" THEN r
             ELSE ExecuteStatements(statements, i + 1, r.closure, r.ctx)

\* the loop of Compound::Execute from the i-th statement on
ExecuteStatements(statements, i, closure, ctx) ==
    IF i > Len(statements) THEN Value(None, closure, ctx)
    ELSE LET statement == statements[i]
             r == Execute(statement, closure, ctx)
         IN  IF statement.node = "Return" THEN r
             ELSE IF r.kind # "value" THEN r
             ELSE IF statement.node \in {"IfElse", "MethodCall"} /\ r.val.t # "None" THEN r
             ELSE ExecuteStatements(statements, i + 1, r.closure, r.ctx)

ExecuteCompound(node, closure, ctx) == ExecuteStatements(node.statements, 1, closure, ctx)

ExecuteReturn(node, closure, ctx) ==
    LET r == Execute(node.statement, closure, ctx)
    IN  IF r.kind # "value" THEN r
        ELSE Thrown(r.val, r.closure,
                    Logged(r.ctx, "return", IF r.val.t = "None" THEN "None" ELSE Render(r.val)))

ExecuteFieldAssignment(node, closure, ctx) ==
    LET o == Execute(node.object, closure, ctx)
    IN  IF o.kind # "value" THEN o
        ELSE IF o.val.t # "ClassInstance" THEN Undefined(o.closure, o.ctx)
        ELSE LET id == o.val.id
                 created == IF node.field_name \in DOMAIN o.ctx.fields[id] THEN o.ctx
                            ELSE [o.ctx EXCEPT !.fields[id] = (node.field_name :> None) @@ @]
                 r == Execute(node.rv, o.closure, created)
             IN  IF r.kind # "value" THEN r
                 ELSE Value(r.val, r.closure,
                            [r.ctx EXCEPT !.fields[id] = (node.field_name :> r.val) @@ @])

ExecuteIfElse(node, closure, ctx) ==
    LET c == Execute(node.condition, closure, ctx)
    IN  IF c.kind # "value" THEN c
        ELSE LET branch == IF c.val.t # "None" /\ IsTrue(c.val) THEN node.if_body
                           ELSE node.else_body
             IN  IF branch = NullStmt THEN Value(None, c.closure, c.ctx)
                 ELSE Execute(branch, c.closure, c.ctx)

ExecuteLogical_ShortCircuit(node, closure, ctx) ==
    LET l == Execute(node.lhs, closure, ctx)
        lhs_h == IF l.val.t = "None" THEN Bool(FALSE) ELSE l.val
    IN  IF l.kind # "value" THEN l
        ELSE IF IsTrue(lhs_h) = (node.node = "Or") THEN Value(Bool(IsTrue(lhs_h)), l.closure, l.ctx)
        ELSE LET r == Execute(node.rhs, l.closure, l.ctx)
                 rhs_h == IF r.val.t = "None" THEN Bool(FALSE) ELSE r.val
             IN  IF r.kind # "value" THEN r
                 ELSE Value(Bool(IsTrue(rhs_h)), r.closure, r.ctx)

\* Or::Execute and And::Execute
ExecuteLogical(node, closure, ctx) ==
    LET l == Execute(node.lhs, closure, ctx)
    IN  IF l.kind # "value" THEN l
        ELSE LET r == Execute(node.rhs, l.closure, l.ctx)
                 lhs_h == IF l.val.t = "None" THEN Bool(FALSE) ELSE l.val
                 rhs_h == IF r.val.t = "None" THEN Bool(FALSE) ELSE r.val
             IN  IF r.kind # "value" THEN r
                 ELSE Value(Bool(IF node.node = "Or" THEN IsTrue(lhs_h) \/ IsTrue(rhs_h)
                                 ELSE IsTrue(lhs_h) /\ IsTrue(rhs_h)),
                            r.closure, r.ctx)

ExecuteNot(node, closure, ctx) ==
    LET a == Execute(node.argument, closure, ctx)
        argument_h == IF a.val.t = "None" THEN Bool(FALSE) ELSE a.val
    IN  IF a.kind # "value" THEN a
        ELSE Value(Bool(~IsTrue(argument_h)), a.closure, a.ctx)

ExecuteMethodBody_Uncaught(node, closure, ctx) == Execute(node.body_, closure, ctx)

ExecuteMethodBody(node, closure, ctx) ==
    LET r == Execute(node.body_, closure, ctx)
    IN  IF r.kind = "return" THEN Value(r.val, r.closure, r.ctx) ELSE r

Execute(node, closure, ctx) ==
    CASE node.node = "Const" ->
           Value(node.v, closure,
                 Logged(ctx, "const", IF node.v.t = "None" THEN "None" ELSE Render(node.v)))
      [] node.node = "VariableValue" -> ExecuteVariableValue(node, closure, ctx)
      [] node.node = "Assignment" -> ExecuteAssignment(node, closure, ctx)
      [] node.node = "FieldAssignment" -> ExecuteFieldAssignment(node, closure, ctx)
      [] node.node = "Print" -> ExecutePrint(node, closure, ctx)
      [] node.node = "MethodCall" -> ExecuteMethodCall(node, closure, ctx)
      [] node.node = "Stringify" -> ExecuteStringify(node, closure, ctx)
      [] node.node = "Div" -> ExecuteDiv(node, closure, ctx)
      [] node.node = "Compound" -> ExecuteCompound(node, closure, ctx)
      [] node.node = "Return" -> ExecuteReturn(node, closure, ctx)
      [] node.node = "IfElse" -> ExecuteIfElse(node, closure, ctx)
      [] node.node \in {"Or", "And"} -> ExecuteLogical(node, closure, ctx)
      [] node.node = "Not" -> ExecuteNot(node, closure, ctx)
      [] node.node = "MethodBody" -> ExecuteMethodBody(node, closure, ctx)

(***************************************************************************)
(* The evaluator as a state machine: the host executes a statement against *)
(* a closure; the Context (output) and the instances persist.              *)
(***************************************************************************)
\* the instances that exist when the host starts executing statements:
\* 1 has no field, 2 has f referring to 1, 3 has f holding a Number
InitialFields ==
    (1 :> <<>>) @@ (2 :> ("f" :> Instance(1))) @@ (3 :> ("f" :> Number(4)))

EvalInit ==
    /\ output = ""
    /\ fields = InitialFields
    /\ runs = 0
    /\ stmt = NullStmt
    /\ closure0 = <<>>
    /\ closure1 = <<>>
    /\ output0 = ""
    /\ fields0 = InitialFields
    /\ result = [kind |-> "none", val |-> None, msg |-> ""]
    /\ log = <<>>

\* what can be observed of an outcome: undefined behaviour may crash the
\* process or carry on with some value
Observable(r) ==
    IF r.kind # "ub" THEN {r}
    ELSE {Outcome("crash", None, "", r.closure, r.ctx)}
         \cup {Value(v, r.closure, r.ctx) : v \in {None, Number(0)}}

\* one Execute call of the host; after a crash there is no host left
Run(node, cl) ==
    /\ result.kind # "crash"
    /\ \E o \in Observable(Execute(node, cl, [fields |-> fields, output |-> output, log |-> <<>>])) :
         /\ result' = [kind |-> o.kind, val |-> o.val, msg |-> o.msg]
         /\ closure1' = o.closure
         /\ fields' = o.ctx.fields
         /\ output' = o.ctx.output
         /\ log' = o.ctx.log
    /\ stmt' = node
    /\ closure0' = cl
    /\ output0' = output
    /\ fields0' = fields
    /\ runs' = runs + 1
    /\ UNCHANGED lexvars

\* MethodBody: a Return (or a plain statement) wrapped up to MaxDepth times
\* in IfElse and Compound nodes
CondVar(d) == IF d % 4 = 1 THEN "other" ELSE "cond"

Wraps(s, d) ==
    { IfElse(VariableValue(<<CondVar(d)>>), s, NullStmt),
      IfElse(VariableValue(<<CondVar(d)>>), NullStmt, s),
      Compound(<<s, Return(Const(Number(7 + d \div 2)))>>),
      Compound(<<Assignment("y", Const(Number(d))), s>>) }

RECURSIVE Nest(_)
Nest(d) ==
    IF d = 0 THEN {Return(Const(Number(7))), Assignment("z", Const(Number(0)))}
    ELSE Nest(d - 1) \cup UNION {Wraps(s, d) : s \in Nest(d - 1)}

BoolClosures ==
    {("cond" :> Bool(c)) @@ ("other" :> Bool(o)) : c \in BOOLEAN, o \in BOOLEAN}

\* a behaviour executes one method body: a call starts on a closure of its
\* own, so a second call sees nothing of the first
ExecMethodBody ==
    /\ runs = 0
    /\ runs < MaxRuns
    /\ \E body \in Nest(MaxDepth), cl \in BoolClosures : Run(MethodBody(body), cl)

\* MethodCall: the object expression and the arguments are assignments, so
\* that their evaluation is visible in the closure and in the log
ObjectClosures == {("x" :> v) : v \in {Instance(1), Number(1), None}}

CallArgs ==
    { <<>>,
      <<Assignment("a1", Const(Number(1)))>>,
      <<Assignment("a1", Const(Number(1))), Assignment("a2", Const(String("s")))>> }

ExecMethodCall ==
    /\ runs < MaxRuns
    /\ \E m \in {"say", "nop", "missing"}, args \in CallArgs, cl \in ObjectClosures :
          Run(MethodCall(Assignment("o", VariableValue(<<"x">>)), m, args), cl)

\* VariableValue
DottedIds == {<<"x">>, <<"x", "f">>, <<"x", "f", "g">>, <<"y">>, <<"y", "f">>}

LookupClosures ==
    {<<>>} \cup {("x" :> v) : v \in {Number(1), None, Instance(1), Instance(2), Instance(3)}}

ExecVariableValue ==
    /\ runs < MaxRuns
    /\ \E ids \in DottedIds, cl \in LookupClosures : Run(VariableValue(ids), cl)

\* Div
NumberPool == {IntMin, -7, -1, 0, 1, 2, 7, IntMax}

Operands ==
    {Const(Number(n)) : n \in NumberPool}
    \cup {Const(String("s")), Const(None), Const(Instance(1))}

ExecDiv ==
    /\ runs < MaxRuns
    /\ \E lhs \in Operands, rhs \in Operands : Run(Div(lhs, rhs), <<>>)

\* Print
PrintArgs ==
    { Const(Number(1)), Const(None), Const(String("a")),
      MethodCall(VariableValue(<<"x">>), "say", <<Const(Number(2))>>) }

ArgLists ==
    {<<>>} \cup {<<a>> : a \in PrintArgs} \cup {<<a, b>> : a \in PrintArgs, b \in PrintArgs}

ExecPrint ==
    /\ runs < MaxRuns
    /\ \E args \in ArgLists : Run(PrintNode(args), ("x" :> Instance(1)))

\* Stringify of a value and Print of the same value alone
ShownValues ==
    { None, Number(0), Number(-12), Number(IntMin), String(""), String("a b"),
      String("None"), Bool(TRUE), Bool(FALSE), Instance(1), Instance(2) }

ExecStringify ==
    /\ runs < MaxRuns
    /\ \E v \in ShownValues : Run(Stringify(Const(v)), <<>>)

ExecPrintValue ==
    /\ runs < MaxRuns
    /\ \E v \in ShownValues : Run(PrintNode(<<Const(v)>>), <<>>)

\* FieldAssignment: the target is x or x.f, the rhs a constant, a failing
\* lookup, a failing division or a read of a field of x
FieldTargets == {VariableValue(<<"x">>), VariableValue(<<"x", "f">>)}

FieldRhs ==
    { Const(Number(5)),
      VariableValue(<<"missing">>),
      Div(Const(Number(1)), Const(Number(0))),
      VariableValue(<<"x", "g">>) }

InstanceClosures == {("x" :> Instance(id)) : id \in {1, 2}}

ExecFieldAssignment ==
    /\ runs < MaxRuns
    /\ \E object \in FieldTargets, field_name \in {"f", "g"}, rv \in FieldRhs,
          cl \in InstanceClosures :
          Run(FieldAssignment(object, field_name, rv), cl)

\* Compound: up to MaxStatements statements; the i-th statement assigns to
\* the variable Mark(i) whenever it is executed, whatever its kind
Mark(i) == "s" \o NatStr(i)

StatementsAt(i) ==
    { Assignment(Mark(i), Const(Number(i))),
      IfElse(Assignment(Mark(i), VariableValue(<<"cond">>)), Const(Number(10 + i)), NullStmt),
      MethodCall(Assignment(Mark(i), VariableValue(<<"x">>)), "say", <<Const(Number(20 + i))>>),
      MethodCall(Assignment(Mark(i), VariableValue(<<"x">>)), "nop", <<>>),
      Compound(<<IfElse(Assignment(Mark(i), Const(Bool(TRUE))), Const(Number(30 + i)), NullStmt)>>),
      Return(Assignment(Mark(i), Const(Number(40 + i)))) }

RECURSIVE StatementLists(_)
StatementLists(n) ==
    IF n = 0 THEN {<<>>}
    ELSE LET shorter == StatementLists(n - 1)
         IN  shorter \cup {Append(l, s) : l \in {q \in shorter : Len(q) = n - 1},
                                          s \in StatementsAt(n)}

CompoundClosures == {("x" :> Instance(1)) @@ ("cond" :> Bool(c)) : c \in BOOLEAN}

\* a behaviour executes one Compound: what it does depends on nothing that
\* an earlier statement of the host leaves behind
ExecCompound ==
    /\ runs = 0
    /\ runs < MaxRuns
    /\ \E statements \in StatementLists(MaxStatements), cl \in CompoundClosures :
          Run(Compound(statements), cl)

\* And, Or: each operand is an assignment, so that its evaluation is
\* visible in the closure and in the log
TruthValues ==
    { None, Bool(TRUE), Bool(FALSE), Number(0), Number(3), String(""), String("a"),
      Instance(1) }

ExecLogical ==
    /\ runs < MaxRuns
    /\ \E op \in {"Or", "And"}, v \in TruthValues, w \in TruthValues :
          Run(BinaryOperation(op, Assignment("l", Const(v)), Assignment("r", Const(w))), <<>>)

EvalNext == ExecMethodCall \/ ExecVariableValue \/ ExecDiv \/ ExecPrint

(***************************************************************************)
(* Specifications.                                                         *)
(***************************************************************************)
Init == LexInit /\ EvalInit

Next ==
    \/ LexNext
    \/ EvalNext
    \/ ExecMethodBody
    \/ ExecStringify
    \/ ExecPrintValue
    \/ ExecFieldAssignment
    \/ ExecCompound
    \/ ExecLogical

Spec == Init /\ [][Next]_vars

\* the lexer alone
LexSpec == Init /\ [][LexNext]_vars

\* the lexer on a finite input: the loop of ReadToken runs on until getline
\* reports the end of the input or a LexerError leaves the constructor
LexLiveSpec == Init /\ [][LexNext]_vars /\ WF_vars(ReadLine \/ EndOfInput)

\* the host executing statements
EvalSpec == Init /\ [][EvalNext]_vars

\* the host executing method bodies
ReturnSpec == Init /\ [][ExecMethodBody]_vars

\* the host stringifying and printing values
StringifySpec == Init /\ [][ExecStringify \/ ExecPrintValue]_vars

\* the host assigning to fields of instances
FieldSpec == Init /\ [][ExecFieldAssignment]_vars

\* the host executing one Compound
CompoundSpec == Init /\ [][ExecCompound]_vars

\* the host evaluating And and Or
LogicalSpec == Init /\ [][ExecLogical]_vars

(***************************************************************************)
(* Properties of the lexer.                                                *)
(***************************************************************************)
RECURSIVE Count(_, _)
Count(t, toks) ==
    IF toks = <<>> THEN 0
    ELSE (IF Head(toks).type = t THEN 1 ELSE 0) + Count(t, Tail(toks))

Prefix(toks, i) == SubSeq(toks, 1, i)

Min(a, b) == IF a < b THEN a ELSE b

Abs(a) == IF a < 0 THEN -a ELSE a

RECURSIVE LeadingSpaces(_)
LeadingSpaces(s) ==
    IF s = <<>> \/ Head(s) # " " THEN 0 ELSE 1 + LeadingSpaces(Tail(s))

RECURSIVE SkipWhitespace(_)
SkipWhitespace(s) ==
    IF s = <<>> \/ ~IsSpace(Head(s)) THEN s ELSE SkipWhitespace(Tail(s))

\* a blank line: empty, whitespace only, or a comment alone on the line
IsBlankLine(s) == SkipWhitespace(s) = <<>> \/ Head(SkipWhitespace(s)) = "#"

\* a line has just been read and handled
LineHandled == nlines > 0 /\ pc \in {"reading", "error"}

\* C1: when construction succeeds the stream ends with its only Eof, holds
\* as many Indent as Dedent tokens, and no prefix of it holds more Dedent
\* than Indent tokens
C1_IndentsBalanced ==
    pc = "ready" =>
        /\ stream # <<>>
        /\ stream[Len(stream)] = Tok("Eof")
        /\ Count("Eof", stream) = 1
        /\ Count("Indent", stream) = Count("Dedent", stream)
        /\ \A i \in 1..Len(stream) :
              Count("Dedent", Prefix(stream, i)) <= Count("Indent", Prefix(stream, i))

C1_Witness ==
    /\ pc = "ready"
    /\ Count("Indent", stream) >= 2
    /\ \E i \in 1..Len(stream) :
          /\ stream[i].type = "Dedent"
          /\ \E j \in (i + 1)..Len(stream) : stream[j].type = "Id"

\* C3: a handled line that is not blank gets exactly one Newline, as the
\* last token pushed for the line
C3_OneNewlinePerLine ==
    (pc = "reading" /\ nlines > 0 /\ ~IsBlankLine(line)) =>
        /\ emitted # <<>>
        /\ Count("Newline", emitted) = 1
        /\ emitted[Len(emitted)] = Tok("Newline")

C3_Witness ==
    /\ pc = "reading" /\ nlines > 1 /\ ~IsBlankLine(line)
    /\ Len(emitted) = 2
    /\ emitted[1].type = "Id"

\* C4: a line of whitespace only or of a comment only pushes no token,
\* raises no error and leaves the indent level as it was
C4_BlankLineNoTokens ==
    (LineHandled /\ IsBlankLine(line)) =>
        /\ pc = "reading"
        /\ emitted = <<>>
        /\ indents = prevIndents

\* C5: after k NextToken calls on a stream of n tokens the unread tokens are
\* the stream from position min(k, n-1) on (so CurrentToken is the token
\* there and, once it is Eof, nothing changes), and NextToken returned it
C5_NextTokenPosition ==
    pc = "ready" =>
        LET n == Len(stream)
            m == Min(k, n - 1)
        IN  /\ token_ = SubSeq(stream, m + 1, n)
            /\ CurrentToken = stream[m + 1]
            /\ k > 0 => returned = stream[m + 1]
            /\ k >= n - 1 => CurrentToken = Tok("Eof")

C5_Witness ==
    /\ pc = "ready"
    /\ Len(stream) > 3
    /\ k > Len(stream)
    /\ returned = Tok("Eof")

Shown(v) == IF v.t = "None" THEN "None" ELSE Render(v)

\* the position of the first event (op, arg) in the log, 0 when there is none
Pos(op, arg) ==
    IF \E i \in 1..Len(log) : log[i] = Event(op, arg)
    THEN CHOOSE i \in 1..Len(log) :
            /\ log[i] = Event(op, arg)
            /\ \A j \in 1..(i - 1) : log[j] # Event(op, arg)
    ELSE 0

\* if cond: (if other: return 7; return 8); return 9
ExampleBody ==
    MethodBody(
        Compound(<<IfElse(VariableValue(<<"cond">>),
                          Compound(<<IfElse(VariableValue(<<"other">>),
                                            Return(Const(Number(7))), NullStmt),
                                     Return(Const(Number(8)))>>),
                          NullStmt),
                   Return(Const(Number(9)))>>))

\* C2: a Return reached inside nested IfElse and Compound nodes is the last
\* step of the MethodBody, whose result is the returned value and never a
\* leaked return signal; the example body yields 7, 8 or 9
C2_ReturnEndsMethodBody ==
    stmt.node = "MethodBody" =>
        /\ result.kind \in {"value", "error"}
        /\ \A i \in 1..Len(log) :
              log[i].op = "return" =>
                  /\ i = Len(log)
                  /\ result.kind = "value"
                  /\ Shown(result.val) = log[i].arg
        /\ stmt = ExampleBody =>
              result.val = Number(IF closure0["cond"].b
                                  THEN (IF closure0["other"].b THEN 7 ELSE 8)
                                  ELSE 9)

C2_Witness ==
    /\ stmt = ExampleBody
    /\ closure0["cond"] = Bool(TRUE)
    /\ closure0["other"] = Bool(FALSE)
    /\ result.val = Number(8)
    /\ Len(log) = 4

\* C7: MethodCall evaluates the object expression before every argument, and
\* evaluates no argument when the object is not a ClassInstance
C7_ObjectBeforeArguments ==
    stmt.node = "MethodCall" =>
        /\ \A a \in {"a1", "a2"} :
              Pos("assign", a) > 0 =>
                  Pos("assign", "o") > 0 /\ Pos("assign", "o") < Pos("assign", a)
        /\ closure0["x"].t # "ClassInstance" =>
              Pos("assign", "a1") = 0 /\ "a1" \notin DOMAIN closure1

\* the path meets a value that is not a ClassInstance or a missing field
RECURSIVE WalkFails(_, _, _)
WalkFails(names, v, flds) ==
    IF names = <<>> THEN FALSE
    ELSE IF v.t # "ClassInstance" THEN TRUE
    ELSE IF Head(names) \notin DOMAIN flds[v.id] THEN TRUE
    ELSE WalkFails(Tail(names), flds[v.id][Head(names)], flds)

LookupFails(ids, cl, flds) ==
    \/ Head(ids) \notin DOMAIN cl
    \/ WalkFails(Tail(ids), cl[Head(ids)], flds)

\* C8: a VariableValue whose first name is unbound, or whose path meets a
\* value that is not a ClassInstance or a missing field, ends in an error and
\* leaves the closure and the fields as they were
C8_LookupFailsWithError ==
    (stmt.node = "VariableValue" /\ LookupFails(stmt.dotted_ids, closure0, fields0)) =>
        /\ result.kind = "error"
        /\ closure1 = closure0
        /\ fields = fields0

\* q is a / b rounded toward zero: a = q * b + r with |r| < |b| and r of
\* the sign of a
IsTruncatedQuotient(a, b, q) ==
    /\ ~DivOverflows(a, b)
    /\ LET r == a - q * b
       IN  /\ r = 0 \/ (r > 0) = (a > 0)
           /\ IF b = IntMin THEN r # IntMin
              ELSE IF b > 0 THEN (0 - b) < r /\ r < b
              ELSE b < r /\ r < (0 - b)

\* C9: Div of Numbers a and b fails with "Zero Division!" when b = 0 and
\* yields the quotient truncated toward zero otherwise
C9_DivOfNumbers ==
    (stmt.node = "Div" /\ stmt.lhs.v.t = "Number" /\ stmt.rhs.v.t = "Number") =>
        IF stmt.rhs.v.n = 0
        THEN result.kind = "error" /\ result.msg = "Zero Division!"
        ELSE /\ result.kind = "value"
             /\ result.val.t = "Number"
             /\ IsTruncatedQuotient(stmt.lhs.v.n, stmt.rhs.v.n, result.val.n)

\* the value of an argument of ArgLists and what its evaluation writes
ArgValue(arg) == IF arg.node = "Const" THEN arg.v ELSE arg.args[1].v

ArgWrites(arg) == IF arg.node = "Const" THEN "" ELSE Shown(arg.args[1].v) \o "\n"

RECURSIVE AllWrites(_)
AllWrites(args) == IF args = <<>> THEN "" ELSE ArgWrites(Head(args)) \o AllWrites(Tail(args))

RECURSIVE Joined(_)
Joined(args) ==
    IF args = <<>> THEN ""
    ELSE IF Len(args) = 1 THEN Shown(ArgValue(Head(args)))
    ELSE Shown(ArgValue(Head(args))) \o " " \o Joined(Tail(args))

\* C10: what Print adds to the output, after whatever the evaluation of its
\* arguments writes, is the shown argument values joined by single spaces
\* and a newline; Print returns None
C10_PrintWritesOneLine ==
    stmt.node = "Print" =>
        /\ result.kind = "value"
        /\ result.val = None
        /\ output = output0 \o AllWrites(stmt.args) \o Joined(stmt.args) \o "\n"

\* the Context a run started with
Context0 == [fields |-> fields0, output |-> output0, log |-> <<>>]

\* the text that Print([v]) adds to the output
PrintedText(v) ==
    LET p == ExecutePrint(PrintNode(<<Const(v)>>), <<>>, [Context0 EXCEPT !.output = ""])
    IN  p.ctx.output

\* the String that Stringify(v) returns
StringifiedText(v) == ExecuteStringify(Stringify(Const(v)), <<>>, Context0).val.s

\* C11: for every value v, None included, the String that Stringify(v)
\* returns, followed by a newline, is the text that Print([v]) writes;
\* Stringify itself writes nothing
C11_StringifyIsPrintedText ==
    /\ stmt.node = "Stringify" =>
          /\ result.kind = "value"
          /\ result.val.t = "String"
          /\ result.val.s \o "\n" = PrintedText(stmt.argument.v)
          /\ output = output0
    /\ (stmt.node = "Print" /\ Len(stmt.args) = 1 /\ stmt.args[1].node = "Const") =>
          output = output0 \o StringifiedText(stmt.args[1].v) \o "\n"

C11_Witness ==
    /\ stmt = Stringify(Const(None))
    /\ result.val = String("None")
    /\ output = "None\n"
    /\ runs = 2

\* what executing the body of the MethodBody in stmt by itself produces
BodyOutcome == Execute(stmt.body_.statements[1], closure0, Context0)

\* C12: MethodBody(body) yields the value carried by a return signal that
\* surfaces from body, and otherwise exactly what executing body produced,
\* whatever kind of node body is
C12_MethodBodyYieldsBodyResult ==
    stmt.node = "MethodBody" =>
        IF BodyOutcome.kind = "return"
        THEN result.kind = "value" /\ result.val = BodyOutcome.val
        ELSE result.kind = BodyOutcome.kind /\ result.val = BodyOutcome.val

\* the value the target path of the FieldAssignment in stmt resolves to
Target == Execute(stmt.object, closure0, Context0)

\* the rhs of the FieldAssignment in stmt reads the very field assigned to
RhsReadsField ==
    /\ stmt.rv.node = "VariableValue"
    /\ stmt.object.dotted_ids = <<"x">>
    /\ stmt.rv.dotted_ids = <<"x", stmt.field_name>>

\* C13: FieldAssignment evaluates rhs before it touches the fields of the
\* target instance: a field that was absent is still absent while rhs is
\* evaluated (an rhs reading it fails), and a failing rhs leaves the fields
\* map as it was
C13_RhsBeforeFields ==
    (stmt.node = "FieldAssignment" /\ Target.kind = "value"
        /\ Target.val.t = "ClassInstance") =>
        /\ result.kind = "error" => fields = fields0
        /\ (RhsReadsField /\ stmt.field_name \notin DOMAIN fields0[Target.val.id]) =>
              result.kind = "error"

\* the i-th statement of the Compound in stmt was executed
Executed(i) == Pos("assign", Mark(i)) > 0

\* what the i-th statement of the Compound in stmt produces by itself
StatementOutcome(i) == Execute(stmt.statements[i], closure0, Context0)

\* the i-th statement ends the Compound: it is a Return, or an IfElse or a
\* MethodCall that produces a non-empty result
Ends(i) ==
    \/ stmt.statements[i].node = "Return"
    \/ /\ stmt.statements[i].node \in {"IfElse", "MethodCall"}
       /\ StatementOutcome(i).val # None

\* C14: Compound executes its statements in order up to the first Return
\* or the first IfElse or MethodCall with a non-empty result, whose result
\* (or return signal) it passes on, and executes no statement after it; the
\* result of any other statement is discarded; when no statement ends it,
\* Compound returns None
C14_CompoundInOrder ==
    stmt.node = "Compound" =>
        LET n == Len(stmt.statements) IN
        /\ \A i \in 1..n : Executed(i) <=> (\A j \in 1..(i - 1) : ~Ends(j))
        /\ \A i \in 1..n : \A j \in (i + 1)..n :
              Executed(j) => Pos("assign", Mark(i)) < Pos("assign", Mark(j))
        /\ \A i \in 1..n :
              (Ends(i) /\ Executed(i)) =>
                  /\ result.val = StatementOutcome(i).val
                  /\ result.kind =
                        (IF stmt.statements[i].node = "Return" THEN "return" ELSE "value")
        /\ (\A i \in 1..n : ~Ends(i)) => (result.kind = "value" /\ result.val = None)

C14_Witness ==
    /\ stmt.node = "Compound"
    /\ Len(stmt.statements) = 3
    /\ stmt.statements[1].node = "Compound"
    /\ stmt.statements[2].node = "IfElse"
    /\ stmt.statements[3].node = "Assignment"
    /\ closure0["cond"] = Bool(TRUE)
    /\ result = [kind |-> "value", val |-> Number(12), msg |-> ""]
    /\ DOMAIN closure1 = {"x", "cond", "s1", "s2"}

\* the truthiness of an operand; an empty operand counts as false
Truth(v) == IF v = None THEN FALSE ELSE IsTrue(v)

\* C15: And and Or evaluate both operands, the left one first, whatever the
\* left one yields, and return the Bool that is the conjunction or the
\* disjunction of the operands' truthiness, an empty operand being false
C15_BothOperandsEvaluated ==
    stmt.node \in {"Or", "And"} =>
        /\ Pos("assign", "l") > 0
        /\ Pos("assign", "r") > Pos("assign", "l")
        /\ closure1 = ("l" :> stmt.lhs.rv.v) @@ ("r" :> stmt.rhs.rv.v)
        /\ result.kind = "value"
        /\ result.val = Bool(IF stmt.node = "Or"
                             THEN Truth(stmt.lhs.rv.v) \/ Truth(stmt.rhs.rv.v)
                             ELSE Truth(stmt.lhs.rv.v) /\ Truth(stmt.rhs.rv.v))

C15_Witness ==
    /\ stmt.node = "Or"
    /\ stmt.lhs.rv.v = Bool(TRUE)
    /\ stmt.rhs.rv.v = None
    /\ closure1["r"] = None
    /\ result.val = Bool(TRUE)

(***************************************************************************)
(* Termination of the lexer's construction.                                *)
(***************************************************************************)
\* the literal opened by the quote q before s is not closed in s: s holds
\* no q outside an escape, or s ends with the backslash of an escape
RECURSIVE Unclosed(_, _)
Unclosed(q, s) ==
    IF s = <<>> THEN TRUE
    ELSE IF Head(s) = q THEN FALSE
    ELSE IF Head(s) = "\\" THEN Len(s) = 1 \/ Unclosed(q, Tail(Tail(s)))
    ELSE Unclosed(q, Tail(s))

\* the first string literal of s, when no comment starts before it, is not
\* closed
RECURSIVE FirstLiteralUnclosed(_)
FirstLiteralUnclosed(s) ==
    IF s = <<>> \/ Head(s) = "#" THEN FALSE
    ELSE IF Head(s) \in {"'", "\""} THEN Unclosed(Head(s), Tail(s))
    ELSE FirstLiteralUnclosed(Tail(s))

\* C16: construction of the Lexer comes to an end on every finite input, and
\* a line with a string literal whose closing quote is missing, or that ends
\* with a backslash, ends it with a LexerError: no further line is read
C16_ConstructionTerminates ==
    /\ [](FirstLiteralUnclosed(line) => pc = "error")
    /\ <>(pc \in {"ready", "error"})

C16_Witness ==
    /\ pc = "error"
    /\ nlines > 1
    /\ LeadingSpaces(line) = 2
    /\ SkipWhitespace(line) = <<"'", "\\">>

====
